---- MODULE Spec2Model ----
(***************************************************************************)
(* State-machine model of the playlist tooling of spinitron.rs:            *)
(*   - the two remote cleanup scripts (delete_all_kalx_playlists.py and    *)
(*     delete_duplicate_playlists.py), specification Spec;                 *)
(*     FaultSpec runs the same scripts on accounts whose playlists carry   *)
(*     the description markers, with requests that raise and an operator   *)
(*     who interrupts; DupSpec runs the duplicate cleaner again and again  *)
(*     while the service changes the snapshot ids;                         *)
(*   - the two page generators (generate_static_html.py and                *)
(*     update_website.py), specification RenderSpec.                       *)
(* Python strings that the code compares, strips or lower-cases are        *)
(* modelled as sequences (of characters, or of digits for sortable         *)
(* tokens), so that the comparisons are computed and not assumed.          *)
(***************************************************************************)
EXTENDS Integers, Sequences, FiniteSets, TLC

VARIABLES
    \* ---- remote cleanup (one invocation of a cleanup script at a time)
    mode,            \* which script runs: "all" or "dup"
    pc,              \* position of main()
    remote,          \* the account's playlists on the hosting service, in listing order
    url,             \* get_*_playlists: pagination cursor (offset of the next page)
    playlists,       \* get_*_playlists: the list accumulated so far / all_playlists
    list_failed,     \* a page request of this run returned a non-200 status
    kalx_playlists,  \* main: playlists passing the membership filter
    to_delete,       \* main: the delete-set (kalx_playlists itself in "all" mode)
    confirmation,    \* main: the line read by input()
    idx,             \* main: position of the delete loop in to_delete
    deleted_count,   \* main: deleted_count
    failed_count,    \* main: failed_count ("all" mode only)
    calls,           \* remove calls issued by this run: <<[id, status], ...>>
    report,          \* what main prints at the end of the batch
    exit_code,       \* process exit status, -1 while running
    runs,            \* number of invocations started so far
    prev,            \* summary of the previous invocation
    \* ---- page generation
    script,          \* "generate" or "update"
    rpc,             \* position of main()
    lines,           \* the input stream
    pos,             \* index of the next input line
    stations,        \* main: dict station -> list of entries, as <<[station, entries]>> in insertion order
    total_playlist_count,
    outcome,         \* per input line: what the parse loop did with it
    documents,       \* rendered documents written so far (at most two renders)
    dump_written,    \* the aggregated dump written, as <<dump>> or <<>>
    rexit            \* exit status of the generator, -1 while running

cleanupVars == <<mode, pc, remote, url, playlists, list_failed, kalx_playlists,
                 to_delete, confirmation, idx, deleted_count, failed_count,
                 calls, report, exit_code, runs, prev>>
renderVars  == <<script, rpc, lines, pos, stations, total_playlist_count,
                 outcome, documents, dump_written, rexit>>
vars == <<cleanupVars, renderVars>>

(***************************************************************************)
(* Bounds                                                                  *)
(***************************************************************************)
MaxPlaylists == 3      \* remote playlists in the account
MaxRuns == 2           \* consecutive cleanup invocations
MaxLines == 3          \* lines of the input stream

(***************************************************************************)
(* Python string operations                                                *)
(***************************************************************************)
\* str < str on strings of digits: lexicographic, a proper prefix is smaller.
RECURSIVE StrLess(_, _)
StrLess(a, b) ==
    IF b = <<>> THEN FALSE
    ELSE IF a = <<>> THEN TRUE
    ELSE IF Head(a) # Head(b) THEN Head(a) < Head(b)
    ELSE StrLess(Tail(a), Tail(b))

Whitespace == {" ", "\t"}

RECURSIVE LStrip(_)
LStrip(s) == IF s # <<>> /\ Head(s) \in Whitespace THEN LStrip(Tail(s)) ELSE s

RECURSIVE RStrip(_)
RStrip(s) ==
    IF s # <<>> /\ s[Len(s)] \in Whitespace
    THEN RStrip(SubSeq(s, 1, Len(s) - 1)) ELSE s

\* str.strip()
Strip(s) == RStrip(LStrip(s))

LowerChar(c) ==
    CASE c = "Y" -> "y" [] c = "E" -> "e" [] c = "S" -> "s"
      [] c = "D" -> "d" [] c = "L" -> "l" [] c = "T" -> "t"
      [] c = "N" -> "n" [] c = "O" -> "o"
      [] OTHER -> c

\* str.lower()
Lower(s) == [i \in 1..Len(s) |-> LowerChar(s[i])]

\* name.startswith(prefix); a playlist name is a sequence of tokens
StartsWith(name, prefix) == Len(name) >= 1 /\ name[1] = prefix

\* marker in description; a description is a sequence of phrases
Contains(description, marker) ==
    \E i \in 1..Len(description) : description[i] = marker

(***************************************************************************)
(* list.sort(key=..., reverse=True): stable, descending                    *)
(***************************************************************************)
\* The order list.sort leaves n elements with these keys in, as a sequence of
\* their original indices: x goes after every element whose key is >= its own.
RECURSIVE InsertDesc(_, _, _)
InsertDesc(keys, sorted, x) ==
    IF sorted = <<>> THEN <<x>>
    ELSE IF StrLess(keys[Head(sorted)], keys[x])
         THEN <<x>> \o sorted
         ELSE <<Head(sorted)>> \o InsertDesc(keys, Tail(sorted), x)

RECURSIVE OrderDesc(_, _)
OrderDesc(keys, n) ==
    IF n = 0 THEN <<>> ELSE InsertDesc(keys, OrderDesc(keys, n - 1), n)

StableSortDesc(s, keys) ==
    LET o == OrderDesc(keys, Len(s)) IN [i \in 1..Len(s) |-> s[o[i]]]

\* a descending sort that puts x before the elements of equal key
RECURSIVE InsertDescUnstable(_, _, _)
InsertDescUnstable(keys, sorted, x) ==
    IF sorted = <<>> THEN <<x>>
    ELSE IF ~StrLess(keys[x], keys[Head(sorted)])
         THEN <<x>> \o sorted
         ELSE <<Head(sorted)>> \o InsertDescUnstable(keys, Tail(sorted), x)

RECURSIVE OrderDescUnstable(_, _)
OrderDescUnstable(keys, n) ==
    IF n = 0 THEN <<>>
    ELSE InsertDescUnstable(keys, OrderDescUnstable(keys, n - 1), n)

\* p.get('snapshot_id', '')
SnapshotKey(p) == IF p.has_snapshot THEN p.snapshot_id ELSE <<>>

SortBySnapshotUnstable(s) ==
    LET o == OrderDescUnstable([i \in 1..Len(s) |-> SnapshotKey(s[i])], Len(s))
    IN [i \in 1..Len(s) |-> s[o[i]]]

\* playlists.sort(key=lambda p: p.get('snapshot_id', ''), reverse=True)
SortBySnapshot(s) == StableSortDesc(s, [i \in 1..Len(s) |-> SnapshotKey(s[i])])

(***************************************************************************)
(* Remote playlists                                                        *)
(***************************************************************************)
KalxPrefix == "KALX -"

\* The playlists an account may hold (without their ids).
PlaylistShapes ==
    { [name |-> <<KalxPrefix, "A">>, description |-> <<>>,
       has_snapshot |-> h, snapshot_id |-> s] :
         <<h, s>> \in {<<FALSE, <<>>>>, <<TRUE, <<1>>>>, <<TRUE, <<1, 0>>>>, <<TRUE, <<2>>>>} }
    \cup
    { [name |-> <<KalxPrefix, "B">>, description |-> <<>>,
       has_snapshot |-> TRUE, snapshot_id |-> s] : s \in {<<1>>} }
    \cup
    { [name |-> <<"Road", "Mix">>, description |-> d,
       has_snapshot |-> TRUE, snapshot_id |-> <<1>>] :
         d \in {<<>>, <<"Show", "Latest ID:">>} }

WithIds(s) ==
    [i \in 1..Len(s) |->
        [id |-> i, name |-> s[i].name, description |-> s[i].description,
         has_snapshot |-> s[i].has_snapshot, snapshot_id |-> s[i].snapshot_id]]

Listings ==
    { WithIds(s) : s \in UNION { [1..n -> PlaylistShapes] : n \in 0..MaxPlaylists } }

Ids(s) == { s[i].id : i \in 1..Len(s) }

\* Accounts for the membership test: a prefixed playlist, and playlists without
\* the prefix whose description holds no marker or one of the markers.
MarkerShapes ==
    { [name |-> <<KalxPrefix, "A">>, description |-> <<>>,
       has_snapshot |-> TRUE, snapshot_id |-> <<1>>] }
    \cup
    { [name |-> <<"Road", "Mix">>, description |-> d,
       has_snapshot |-> TRUE, snapshot_id |-> <<1>>] :
         d \in { <<"Show">>, <<"Generated from Spinitron">>,
                 <<"Spinitron ID:">>, <<"Show", "Latest ID:">> } }

\* Accounts for repeated duplicate cleaning: copies of one name with and
\* without a snapshot id, and a second name.
DupShapes ==
    { [name |-> <<KalxPrefix, "A">>, description |-> <<>>,
       has_snapshot |-> h, snapshot_id |-> s] :
         <<h, s>> \in {<<FALSE, <<>>>>, <<TRUE, <<1>>>>} }
    \cup
    { [name |-> <<KalxPrefix, "B">>, description |-> <<>>,
       has_snapshot |-> TRUE, snapshot_id |-> <<1>>] }

DupListings ==
    { WithIds(s) : s \in UNION { [1..n -> DupShapes] : n \in 0..MaxPlaylists } }

\* what the service may answer for p.get('snapshot_id', '') at a later time
SnapshotValues == {<<FALSE, <<>>>>, <<TRUE, <<1>>>>}

\* the account r at a later time: the same playlists, any snapshot ids
Drift(r) ==
    { [i \in 1..Len(r) |->
          [r[i] EXCEPT !.has_snapshot = f[i][1], !.snapshot_id = f[i][2]]] :
        f \in [1..Len(r) -> SnapshotValues] }

MarkerListings ==
    { WithIds(s) : s \in UNION { [1..n -> MarkerShapes] : n \in 0..MaxPlaylists } }

(***************************************************************************)
(* Classification                                                          *)
(***************************************************************************)
\* any described playlist counts as generated
IsKalxAnyDescription(p) ==
    StartsWith(p.name, KalxPrefix) \/ p.description # <<>>

\* delete_all_kalx_playlists.py: is_kalx (in the source the second marker is
\* spelled with an accented i)
IsKalxAll(p) ==
    \/ StartsWith(p.name, KalxPrefix)
    \/ Contains(p.description, "Generated from Spinitron")
    \/ Contains(p.description, "Spinitron ID:")
    \/ Contains(p.description, "Latest ID:")

\* delete_duplicate_playlists.py: p['name'].startswith('KALX -')
IsKalxDup(p) == StartsWith(p.name, KalxPrefix)

FilterKalx(m, all) ==
    IF m = "all" THEN SelectSeq(all, IsKalxAll) ELSE SelectSeq(all, IsKalxDup)

\* keys of playlist_groups, in insertion order
RECURSIVE GroupNames(_)
GroupNames(s) ==
    IF s = <<>> THEN <<>>
    ELSE LET rest == GroupNames(SubSeq(s, 1, Len(s) - 1))
             n == s[Len(s)].name
         IN IF \E i \in 1..Len(rest) : rest[i] = n THEN rest ELSE Append(rest, n)

\* playlist_groups[name]
Group(s, n) == SelectSeq(s, LAMBDA p : p.name = n)

\* every member of a duplicated group is appended, the kept one too
DuplicatesOfAll(group) ==
    IF Len(group) > 1 THEN SortBySnapshot(group) ELSE <<>>

\* the members of one group appended to to_delete: all but index 0 of the sorted group
DuplicatesOf(group) ==
    IF Len(group) > 1 THEN Tail(SortBySnapshot(group)) ELSE <<>>

RECURSIVE ConcatGroups(_, _)
ConcatGroups(s, names) ==
    IF names = <<>> THEN <<>>
    ELSE DuplicatesOf(Group(s, Head(names))) \o ConcatGroups(s, Tail(names))

\* every matching playlist is deleted, in either mode
DeleteSetEveryMatch(m, kalx) == kalx

\* main: the delete-set computed from kalx_playlists
DeleteSet(m, kalx) ==
    IF m = "all" THEN kalx ELSE ConcatGroups(kalx, GroupNames(kalx))

(***************************************************************************)
(* Confirmation                                                            *)
(***************************************************************************)
ConfirmInputs ==
    { <<"D","E","L","E","T","E">>, <<"d","e","l","e","t","e">>,
      <<"D","E","L","E","T","E"," ">>,
      <<"y","e","s">>, <<"y">>, <<" ","Y","e","s">>, <<"n","o">>, <<>> }

\* every input passes the gate
ConfirmAcceptedAlways(m, inp) == TRUE

\* the test main applies to the line read by input()
ConfirmAccepted(m, inp) ==
    IF m = "all"
    THEN inp = <<"D","E","L","E","T","E">>
    ELSE Lower(Strip(inp)) \in { <<"y","e","s">>, <<"y">> }

(***************************************************************************)
(* Cleanup: actions                                                        *)
(***************************************************************************)
Modes == {"all", "dup"}
StatusCodes == {200, 500}
Terminal == {"DONE", "CANCELLED", "NOTHING_TO_DO", "FAILED"}

NoPrev == [valid |-> FALSE, mode |-> "all", pc |-> "IDLE",
           deleted |-> {}, failed |-> {}, kept |-> {}]

NoReport == [printed |-> FALSE]

\* a first invocation of one of the scripts modes on one of the accounts
CleanupStart(modes, listings) ==
    /\ mode \in modes
    /\ pc = "IDLE"
    /\ remote \in listings
    /\ url = 0
    /\ playlists = <<>>
    /\ list_failed = FALSE
    /\ kalx_playlists = <<>>
    /\ to_delete = <<>>
    /\ confirmation = <<>>
    /\ idx = 1
    /\ deleted_count = 0
    /\ failed_count = 0
    /\ calls = <<>>
    /\ report = NoReport
    /\ exit_code = -1
    /\ runs = 1
    /\ prev = NoPrev

CleanupInit == CleanupStart(Modes, Listings)

\* get_access_token: the token request succeeds, or the script exits with 1
GetAccessToken ==
    /\ pc = "IDLE"
    /\ \E ok \in BOOLEAN :
         IF ok THEN /\ pc' = "LISTING"
                    /\ exit_code' = exit_code
               ELSE /\ pc' = "FAILED"
                    /\ exit_code' = 1
    /\ url' = 0
    /\ playlists' = <<>>
    /\ UNCHANGED <<mode, remote, list_failed, kalx_playlists, to_delete,
                   confirmation, idx, deleted_count, failed_count, calls,
                   report, runs, prev>>

\* what each script does when a page request returns a non-200 status:
\* "dup" exits with status 1, "all" returns [] to main, which goes on.
ListFailureIsFatal(m) == m = "dup"

\* one iteration of the while-url loop: a page of n items, then the next cursor
FetchPage ==
    /\ pc = "LISTING"
    /\ \E status \in StatusCodes :
         IF status # 200
         THEN /\ list_failed' = TRUE
              /\ url' = url
              /\ IF ListFailureIsFatal(mode)
                 THEN /\ pc' = "FAILED"
                      /\ exit_code' = 1
                      /\ playlists' = playlists
                 ELSE /\ pc' = "CLASSIFYING"
                      /\ exit_code' = exit_code
                      /\ playlists' = <<>>
         ELSE \E n \in 0..(Len(remote) - url) :
              /\ n > 0 \/ url = Len(remote)
              /\ playlists' = playlists \o SubSeq(remote, url + 1, url + n)
              /\ url' = url + n
              /\ pc' = IF url + n = Len(remote) THEN "CLASSIFYING" ELSE "LISTING"
              /\ UNCHANGED <<list_failed, exit_code>>
    /\ UNCHANGED <<mode, remote, kalx_playlists, to_delete, confirmation, idx,
                   deleted_count, failed_count, calls, report, runs, prev>>

\* the prompt is shown whatever the delete-set
NothingToDeleteNever(td) == FALSE

\* if not kalx_playlists: return / if not to_delete: return
NothingToDelete(td) == td = <<>>

\* main, from the return of the listing to the prompt (or to an early return)
Classify ==
    /\ pc = "CLASSIFYING"
    /\ kalx_playlists' = FilterKalx(mode, playlists)
    /\ to_delete' = DeleteSet(mode, kalx_playlists')
    /\ IF NothingToDelete(to_delete')
       THEN /\ pc' = "NOTHING_TO_DO"
            /\ exit_code' = 0
       ELSE /\ pc' = "AWAITING_CONFIRMATION"
            /\ exit_code' = exit_code
    /\ UNCHANGED <<mode, remote, url, playlists, list_failed, confirmation, idx,
                   deleted_count, failed_count, calls, report, runs, prev>>

\* input(...) and the test on it
Confirm ==
    /\ pc = "AWAITING_CONFIRMATION"
    /\ \E inp \in ConfirmInputs :
         /\ confirmation' = inp
         /\ IF ConfirmAccepted(mode, inp)
            THEN /\ pc' = "DELETING"
                 /\ exit_code' = exit_code
            ELSE /\ pc' = "CANCELLED"
                 /\ exit_code' = 0
    /\ idx' = 1
    /\ deleted_count' = 0
    /\ failed_count' = 0
    /\ UNCHANGED <<mode, remote, url, playlists, list_failed, kalx_playlists,
                   to_delete, calls, report, runs, prev>>

RemoveId(s, id) == SelectSeq(s, LAMBDA p : p.id # id)

\* the batch stops at the first failure
BatchEndsAfterFailure(i, status) == i = Len(to_delete) \/ status # 200

\* whether the delete loop is over after item i answered status
BatchEnds(i, status) == i = Len(to_delete)

\* the summary printed after the loop
Summary(m, deleted, failed) ==
    IF m = "all"
    THEN [printed |-> TRUE, deleted |-> deleted, failed |-> failed]
    ELSE [printed |-> TRUE, deleted |-> deleted,
          remain |-> Len(GroupNames(kalx_playlists))]

\* one iteration of the delete loop; after the last one, the summary
DeleteNext ==
    /\ pc = "DELETING"
    /\ idx <= Len(to_delete)
    /\ \E status \in StatusCodes :
         LET p == to_delete[idx]
             ok == status = 200
             d == IF ok THEN deleted_count + 1 ELSE deleted_count
             f == IF ~ok /\ mode = "all" THEN failed_count + 1 ELSE failed_count
         IN /\ calls' = Append(calls, [id |-> p.id, status |-> status])
            /\ remote' = IF ok THEN RemoveId(remote, p.id) ELSE remote
            /\ deleted_count' = d
            /\ failed_count' = f
            /\ idx' = idx + 1
            /\ IF BatchEnds(idx, status)
               THEN /\ pc' = "DONE"
                    /\ report' = Summary(mode, d, f)
                    /\ exit_code' = 0
               ELSE /\ pc' = "DELETING"
                    /\ UNCHANGED <<report, exit_code>>
    /\ UNCHANGED <<mode, url, playlists, list_failed, kalx_playlists, to_delete,
                   confirmation, runs, prev>>

CallIds(st) == { calls[i].id : i \in { j \in 1..Len(calls) : calls[j].status \in st } }

\* status recorded for a request that raised instead of returning a response
NoResponse == 0

Running == {"IDLE", "LISTING", "CLASSIFYING", "AWAITING_CONFIRMATION", "DELETING"}

\* requests.post / requests.get / requests.delete raises (connection refused,
\* reset, timeout).  Neither script catches it around the request: in "dup" it
\* reaches the except Exception clause of __main__ (message, sys.exit(1)), in
\* "all" it leaves main as a traceback (exit status 1).  A delete request that
\* raised may or may not have been carried out by the service.
RequestRaises ==
    /\ pc \in {"IDLE", "LISTING", "DELETING"}
    /\ pc' = "FAILED"
    /\ exit_code' = 1
    /\ IF pc = "DELETING"
       THEN /\ calls' = Append(calls, [id |-> to_delete[idx].id, status |-> NoResponse])
            /\ remote' \in {remote, RemoveId(remote, to_delete[idx].id)}
       ELSE UNCHANGED <<calls, remote>>
    /\ UNCHANGED <<mode, url, playlists, list_failed, kalx_playlists, to_delete,
                   confirmation, idx, deleted_count, failed_count, report,
                   runs, prev>>

\* Ctrl-C while the script runs.  "dup": except KeyboardInterrupt in __main__
\* prints "Cancelled by user" and the script ends normally; "all": nothing
\* catches it and the interpreter ends with the interrupt status.
Interrupt ==
    /\ pc \in Running
    /\ IF mode = "dup"
       THEN /\ pc' = "CANCELLED"
            /\ exit_code' = 0
       ELSE /\ pc' = "FAILED"
            /\ exit_code' = 130
    /\ UNCHANGED <<mode, remote, url, playlists, list_failed, kalx_playlists,
                   to_delete, confirmation, idx, deleted_count, failed_count,
                   calls, report, runs, prev>>

\* the operator starts one of the scripts modes again, on the account as the
\* service then presents it
Restart(modes, remotes) ==
    /\ pc \in Terminal
    /\ runs < MaxRuns
    /\ runs' = runs + 1
    /\ prev' = [valid |-> TRUE, mode |-> mode, pc |-> pc,
                deleted |-> CallIds({200}),
                failed |-> CallIds(StatusCodes \ {200}),
                kept |-> Ids(kalx_playlists) \ Ids(to_delete)]
    /\ mode' \in modes
    /\ pc' = "IDLE"
    /\ url' = 0
    /\ playlists' = <<>>
    /\ list_failed' = FALSE
    /\ kalx_playlists' = <<>>
    /\ to_delete' = <<>>
    /\ confirmation' = <<>>
    /\ idx' = 1
    /\ deleted_count' = 0
    /\ failed_count' = 0
    /\ calls' = <<>>
    /\ report' = NoReport
    /\ exit_code' = -1
    /\ remote' \in remotes

\* the operator starts one of the scripts again; the account is as it was left
NextRun == Restart(Modes, {remote})

(***************************************************************************)
(* Cleanup: properties                                                     *)
(***************************************************************************)
Delete == <<"D","E","L","E","T","E">>
Yes == <<"y","e","s">>

GateDecided == pc \in {"CANCELLED", "DELETING", "DONE"}
Classified == GateDecided \/ pc \in {"AWAITING_CONFIRMATION", "NOTHING_TO_DO"}

\* the single token each script's prompt asks for
RequiredToken(m) == IF m = "all" THEN Delete ELSE Yes

\* C1 as stated: in both modes every input other than the one required token,
\* compared verbatim, ends the run CANCELLED with no remove call.
C1_VerbatimTokenOnly ==
    (GateDecided /\ confirmation # RequiredToken(mode))
        => (pc = "CANCELLED" /\ calls = <<>>)

\* C1 as amended: in delete-all mode every input other than exactly DELETE, and
\* in duplicate mode every input that is neither "yes" nor "y" once surrounding
\* whitespace is stripped and it is lower-cased, ends the run CANCELLED with
\* exit status 0, no remove call and the remote playlists untouched by this run.
C1_GateBlocksOtherInput ==
    (/\ GateDecided
     /\ \/ mode = "all" /\ confirmation # Delete
        \/ mode = "dup" /\ Lower(Strip(confirmation)) \notin {Yes, <<"y">>})
        => (pc = "CANCELLED" /\ calls = <<>> /\ exit_code = 0
            /\ Ids(playlists) = Ids(remote))

C1_Witness ==
    /\ pc = "CANCELLED"
    /\ mode = "all"
    /\ confirmation = <<"D","E","L","E","T","E"," ">>
    /\ Len(to_delete) >= 2

NumCalls(st) == Cardinality({ i \in 1..Len(calls) : calls[i].status \in st })

\* the remove calls so far are the first items of the delete-set, in order
CallsFollowDeleteSet ==
    /\ Len(calls) <= Len(to_delete)
    /\ \A i \in 1..Len(calls) : calls[i].id = to_delete[i].id
    /\ pc = "DELETING" => Len(calls) = idx - 1

\* C2 as stated: one remove call per item in delete-set order, failures
\* notwithstanding, and at DONE both scripts report a deleted-count (the 200s)
\* and a failed-count (the others) that sum to the size of the delete-set.
C2_BothCountsReported ==
    /\ pc \in {"DELETING", "DONE"} => CallsFollowDeleteSet
    /\ pc = "DONE" =>
         /\ Len(calls) = Len(to_delete)
         /\ report.deleted = NumCalls({200})
         /\ "failed" \in DOMAIN report
         /\ report.failed = NumCalls(StatusCodes \ {200})
         /\ report.deleted + report.failed = Len(to_delete)

\* C2 as amended: one remove call per item in delete-set order, failures
\* notwithstanding; at DONE the reported deleted-count is the number of 200s;
\* delete-all mode also reports a failed-count, the number of other answers,
\* and the two sum to the size of the delete-set; duplicate mode reports no
\* failed-count (a failure is printed per item only).
C2_BatchCompletesAndCounts ==
    /\ pc \in {"DELETING", "DONE"} => CallsFollowDeleteSet
    /\ pc = "DONE" =>
         /\ Len(calls) = Len(to_delete)
         /\ report.printed
         /\ report.deleted = NumCalls({200})
         /\ mode = "all" =>
              /\ report.failed = NumCalls(StatusCodes \ {200})
              /\ report.deleted + report.failed = Len(to_delete)
         /\ mode = "dup" => "failed" \notin DOMAIN report

C2_Witness ==
    /\ pc = "DONE"
    /\ mode = "all"
    /\ Len(calls) = 3
    /\ calls[1].status = 200 /\ calls[2].status = 500 /\ calls[3].status = 200

\* C3: a non-success page response makes the run a fatal error (exit status
\* 1): it is never classified, never prompts and never issues a remove call.
C3_ListFailureIsFatal ==
    list_failed => (pc = "FAILED" /\ exit_code = 1 /\ calls = <<>>)

Matching == SelectSeq(playlists, LAMBDA p : StartsWith(p.name, KalxPrefix))
SameName(n) == { i \in 1..Len(Matching) : Matching[i].name = n }
KeyGeq(p, q) == ~StrLess(SnapshotKey(p), SnapshotKey(q))

\* C4: the delete-list holds, for every name carried by more than one matching
\* playlist, all playlists of that name but one, and nothing else; the one
\* kept has a snapshot key >= that of every other playlist of the name and
\* precedes in the listing every other playlist of the name with an equal key.
C4_DuplicateResolver ==
    (mode = "dup" /\ Classified) =>
        /\ Ids(to_delete) \subseteq Ids(Matching)
        /\ Cardinality(Ids(to_delete)) = Len(to_delete)
        /\ \A i \in 1..Len(Matching) :
             LET G == SameName(Matching[i].name)
                 kept == { j \in G : Matching[j].id \notin Ids(to_delete) }
             IN /\ Cardinality(kept) = 1
                /\ Cardinality(G) = 1 => i \in kept
                /\ \A k \in kept : \A j \in G \ {k} :
                     /\ KeyGeq(Matching[k], Matching[j])
                     /\ SnapshotKey(Matching[j]) = SnapshotKey(Matching[k]) => k < j

\* three playlists of one name, the two with the greatest key tied, and a
\* playlist of a unique name
C4_Witness ==
    /\ mode = "dup"
    /\ pc = "AWAITING_CONFIRMATION"
    /\ Len(to_delete) = 2
    /\ \E i, j \in 1..Len(Matching) :
         /\ i < j
         /\ Matching[i].name = Matching[j].name
         /\ SnapshotKey(Matching[i]) = SnapshotKey(Matching[j])
         /\ Matching[i].id \notin Ids(to_delete)
         /\ Matching[j].id \in Ids(to_delete)
         /\ \E k \in 1..Len(Matching) :
              k < i /\ StrLess(SnapshotKey(Matching[k]), SnapshotKey(Matching[i]))

SameModeRerun == prev.valid /\ prev.pc = "DONE" /\ prev.mode = mode

\* C5: when the previous run of the same script went through its batch, a run
\* that classifies the re-fetched listing has as delete-set exactly the items
\* whose removal failed before, none that the earlier run kept and none already
\* removed, and calls remove on those only; after a batch without failure the
\* next run has an empty delete-set and issues no remove call.
C5_RerunIdempotent ==
    SameModeRerun =>
        /\ (Classified /\ ~list_failed) =>
              /\ Ids(to_delete) = prev.failed
              /\ Ids(to_delete) \cap (prev.kept \cup prev.deleted) = {}
        /\ { calls[i].id : i \in 1..Len(calls) } \subseteq prev.failed
        /\ (prev.failed = {} /\ Classified) =>
              (pc = "NOTHING_TO_DO" /\ to_delete = <<>> /\ calls = <<>>)

C5_Witness ==
    /\ SameModeRerun
    /\ mode = "dup"
    /\ pc = "DONE"
    /\ prev.failed # {} /\ prev.deleted # {} /\ prev.kept # {}
    /\ Len(calls) = Cardinality(prev.failed)

C5_WitnessClean ==
    SameModeRerun /\ prev.failed = {} /\ pc = "NOTHING_TO_DO" /\ mode = "dup"

(***************************************************************************)
(* Page generation: input lines                                            *)
(***************************************************************************)
\* station names as Python strings (code points), so that sorted() is computed
KALX == <<75, 65, 76, 88>>
WFMU == <<87, 70, 77, 85>>

Track(n, artists, img) == [name |-> n, artists |-> artists, image_url |-> img]

AllKeys == {"station", "name", "url", "track_count", "last_updated", "preview"}

\* a line holding a JSON object with the given keys
Obj(keys, st, nm, tc, lu, pv) ==
    [kind |-> "object", keys |-> keys, station |-> st, name |-> nm, url |-> "u",
     track_count |-> tc, last_updated |-> lu, preview |-> pv]

\* a line that holds no JSON object: blank, not JSON, or a JSON array
Other(k) ==
    [kind |-> k, keys |-> {}, station |-> <<>>, name |-> "", url |-> "",
     track_count |-> 0, last_updated |-> <<>>, preview |-> <<>>]

TwoTracks ==
    << Track("t1", <<"Ann", "Bo">>, <<"img1">>), Track("t2", <<"Ann">>, <<>>) >>

\* one track more than the renderer uses; the last one brings a new artist
LongPreview ==
    [k \in 1..13 |->
        Track("t", IF k = 13 THEN <<"Cy">>
                   ELSE IF k % 2 = 1 THEN <<"Bo">> ELSE <<"Ann", "Bo">>,
              IF k >= 12 THEN <<"img">> ELSE <<>>)]

LineShapes ==
    { Other("blank"), Other("garbage"), Other("array"),
      Obj(AllKeys, KALX, "Jazz", 3, <<2>>, TwoTracks),
      Obj(AllKeys, KALX, "Blues", 3, <<2>>, <<>>),
      Obj(AllKeys, WFMU, "Folk", 3, <<1>>, LongPreview),
      Obj(AllKeys \ {"last_updated", "preview"}, KALX, "Rock", 3, <<>>, <<>>),
      Obj(AllKeys, WFMU, "Soul", 0, <<1>>, <<>>),
      Obj(AllKeys \ {"station"}, <<>>, "Jazz", 3, <<1>>, <<>>),
      Obj(AllKeys, <<>>, "Jazz", 3, <<1>>, <<>>),
      Obj(AllKeys \ {"name"}, KALX, "", 3, <<1>>, <<>>),
      Obj(AllKeys \ {"url"}, KALX, "Blues", 3, <<1>>, <<>>) }

Inputs == UNION { [1..n -> LineShapes] : n \in 0..MaxLines }

Has(line, k) == k \in line.keys

(***************************************************************************)
(* Page generation: the parse loop                                         *)
(***************************************************************************)
Skip(how) == [outcome |-> how, station |-> <<>>, entry |-> <<>>]

\* the entry both scripts append; a field read with .get(key) is <<>> (None)
\* when the key is absent. src is the position of the line in the input.
Entry(line, i) ==
    [name |-> IF Has(line, "name") THEN <<line.name>> ELSE <<>>,
     url |-> IF Has(line, "url") THEN <<line.url>> ELSE <<>>,
     track_count |-> line.track_count,
     last_updated |-> IF Has(line, "last_updated") THEN line.last_updated ELSE <<>>,
     preview |-> IF Has(line, "preview") THEN line.preview ELSE <<>>,
     src |-> i]

\* generate_static_html.py without the zero-track test
ParseGenerateKeepEmpty(line, i) ==
    CASE line.kind = "blank" -> Skip("blank")
      [] line.kind = "garbage" -> Skip("skipped_diag")
      [] line.kind = "array" -> Skip("abort")
      [] OTHER ->
           IF ~Has(line, "station") \/ line.station = <<>>
           THEN Skip("skipped_silent")
           ELSE [outcome |-> "entry", station |-> line.station,
                 entry |-> <<Entry(line, i)>>]

\* generate_static_html.py, the body of the for-line loop
ParseGenerate(line, i) ==
    CASE line.kind = "blank" -> Skip("blank")
      [] line.kind = "garbage" -> Skip("skipped_diag")
      [] line.kind = "array" -> Skip("abort")
      [] OTHER ->
           IF ~Has(line, "station") \/ line.station = <<>>
           THEN Skip("skipped_silent")
           ELSE IF ~Has(line, "track_count") \/ line.track_count = 0
           THEN Skip("skipped_silent")
           ELSE [outcome |-> "entry", station |-> line.station,
                 entry |-> <<Entry(line, i)>>]

\* update_website.py, the body of the for-line loop
ParseUpdate(line, i) ==
    CASE line.kind = "blank" -> Skip("blank")
      [] line.kind = "garbage" -> Skip("skipped_diag")
      [] line.kind = "array" -> Skip("abort")
      [] OTHER ->
           IF ~({"station", "name", "url", "track_count"} \subseteq line.keys)
           THEN Skip("skipped_diag")
           ELSE [outcome |-> "entry", station |-> line.station,
                 entry |-> <<Entry(line, i)>>]

ParseOne(sc, line, i) ==
    IF sc = "generate" THEN ParseGenerate(line, i) ELSE ParseUpdate(line, i)

\* stations.setdefault(station, []).append(entry)
AppendEntry(sts, st, e) ==
    IF \E k \in 1..Len(sts) : sts[k].station = st
    THEN [k \in 1..Len(sts) |->
            IF sts[k].station = st
            THEN [station |-> st, entries |-> Append(sts[k].entries, e)]
            ELSE sts[k]]
    ELSE Append(sts, [station |-> st, entries |-> <<e>>])

\* the test is made on the counter and lets a single record through as empty
NoStationsByCount == total_playlist_count <= 1

\* if not stations
NoStations == stations = <<>>

(***************************************************************************)
(* Page generation: rendering                                              *)
(***************************************************************************)
PreviewCap == 12
symbols == <<"sym1", "sym2", "sym3">>   \* the first entries of the 33-entry list
palette == <<"#896241ff", "#422A19ff", "#88B1D4ff", "#A9C8D8ff", "#5A7ACFff">>
Timestamps == {"09:00 UTC", "09:01 UTC"}

\* hashlib.md5(name).hexdigest()[:8] as its two 16-bit halves <<high, low>>
NameHash(name) ==
    CASE name = "Jazz" -> <<39464, 20221>>   \* 9a284efd
      [] name = "Blues" -> <<44194, 41920>>   \* aca2a3c0
      [] name = "Folk" -> <<10033, 4657>>   \* 27311231
      [] name = "Rock" -> <<19707, 45349>>   \* 4cfbb125
      [] name = "Soul" -> <<23199, 56595>>   \* 5a9fdd13

\* int(h, 16) % n for h = <<high, low>>, without leaving 32-bit arithmetic
HashMod(h, n) == ((h[1] % n) * (65536 % n) + h[2]) % n

\* a colour drawn from a hash that changes from one render to the next
ColorSalted(name) ==
    palette[((HashMod(NameHash(name), Len(palette)) + Len(documents)) % Len(palette)) + 1]

\* idx = int(name_hash[:8], 16) % len(palette); color = palette[idx]
Color(name) == palette[HashMod(NameHash(name), Len(palette)) + 1]

Min(a, b) == IF a < b THEN a ELSE b

\* the whole preview, uncapped
FirstTracksAll(p) == p.preview

\* p.get("preview", [])[:12]
FirstTracks(p) == SubSeq(p.preview, 1, Min(PreviewCap, Len(p.preview)))

RECURSIVE AddArtists(_, _)
AddArtists(set, artists) ==
    IF artists = <<>> THEN set
    ELSE AddArtists(IF \E k \in 1..Len(set) : set[k] = Head(artists)
                    THEN set ELSE Append(set, Head(artists)),
                    Tail(artists))

RECURSIVE ArtistsOf(_, _)
ArtistsOf(set, tracks) ==
    IF tracks = <<>> THEN set
    ELSE ArtistsOf(AddArtists(set, Head(tracks).artists), Tail(tracks))

\* artist_set
ArtistSet(p) == ArtistsOf(<<>>, FirstTracks(p))

\* number of separators the card of p draws
SepCount(p) == IF ArtistSet(p) = <<>> THEN 0 ELSE Len(ArtistSet(p)) - 1

\* txt: the artists with the drawn separators between them
MaskText(p, seps) ==
    LET a == ArtistSet(p)
    IN [k \in 1..(IF a = <<>> THEN 0 ELSE 2 * Len(a) - 1) |->
          IF k % 2 = 1 THEN a[(k + 1) \div 2] ELSE seps[k \div 2]]

Images(p) ==
    LET withImg == SelectSeq(FirstTracks(p), LAMBDA t : t.image_url # <<>>)
    IN [k \in 1..Len(withImg) |-> [img |-> withImg[k].image_url[1], alt |-> withImg[k].name]]

\* what an f-string prints for a value that may be None
Shown(opt) == IF opt = <<>> THEN "None" ELSE opt[1]

\* sorted(stations): dict keys in ascending order
RECURSIVE InsertAsc(_, _)
InsertAsc(sorted, x) ==
    IF sorted = <<>> THEN <<x>>
    ELSE IF StrLess(x, Head(sorted)) THEN <<x>> \o sorted
    ELSE <<Head(sorted)>> \o InsertAsc(Tail(sorted), x)

\* the dict keys in insertion order, as iterating the dict gives them
SortedKeysInsertionOrder(sts) == [k \in 1..Len(sts) |-> sts[k].station]

RECURSIVE SortedKeys(_)
SortedKeys(sts) ==
    IF sts = <<>> THEN <<>>
    ELSE InsertAsc(SortedKeys(SubSeq(sts, 1, Len(sts) - 1)), sts[Len(sts)].station)

EntriesOf(sts, st) ==
    LET k == CHOOSE k \in 1..Len(sts) : sts[k].station = st IN sts[k].entries

\* pls.sort(key=lambda p: p.get("last_updated", ""), reverse=True)
SortByLastUpdated(pls) ==
    StableSortDesc(pls, [k \in 1..Len(pls) |-> pls[k].last_updated])

\* generate_static_html.py sorts each station's list in place
SortedInPlace(sts) ==
    [k \in 1..Len(sts) |->
        [station |-> sts[k].station, entries |-> SortByLastUpdated(sts[k].entries)]]

\* the playlists in the order the page shows them, each with its station
RECURSIVE RenderOrder(_, _, _)
RenderOrder(sc, sts, keys) ==
    IF keys = <<>> THEN <<>>
    ELSE LET pls == IF sc = "generate"
                    THEN SortByLastUpdated(EntriesOf(sts, Head(keys)))
                    ELSE EntriesOf(sts, Head(keys))
         IN [k \in 1..Len(pls) |-> [station |-> Head(keys), p |-> pls[k]]]
            \o RenderOrder(sc, sts, Tail(keys))

RECURSIVE SepsBefore(_, _)
SepsBefore(flat, k) ==
    IF k = 1 THEN 0 ELSE SepsBefore(flat, k - 1) + SepCount(flat[k - 1].p)

TotalSeps(flat) == IF flat = <<>> THEN 0 ELSE SepsBefore(flat, Len(flat) + 1)

\* generate_static_html.py: one <li> card
Card(station, p, seps) ==
    [station |-> station, url |-> Shown(p.url), title |-> Shown(p.name),
     badge |-> p.track_count, last_up |-> p.last_updated,
     color |-> Color(p.name[1]), text |-> MaskText(p, seps),
     images |-> Images(p), src |-> p.src]

\* update_website.py: one table row
Row(station, p) ==
    [station |-> station, url |-> Shown(p.url), title |-> Shown(p.name),
     badge |-> p.track_count, last_up |-> p.last_updated,
     color |-> "", text |-> <<>>,
     images |-> [k \in 1..Len(p.preview) |->
                   [img |-> Shown(p.preview[k].image_url),
                    alt |-> p.preview[k].name,
                    artists |-> p.preview[k].artists]],
     src |-> p.src]

\* the document one render writes, for the separators and the timestamp drawn
Document(sc, sts, draws, ts, count) ==
    LET keys == SortedKeys(sts)
        flat == RenderOrder(sc, sts, keys)
    IN [toc |-> IF sc = "generate" THEN keys ELSE <<>>,
        body |-> [k \in 1..Len(flat) |->
                    IF sc = "generate"
                    THEN Card(flat[k].station, flat[k].p,
                              SubSeq(draws, SepsBefore(flat, k) + 1,
                                     SepsBefore(flat, k) + SepCount(flat[k].p)))
                    ELSE Row(flat[k].station, flat[k].p)],
        ts |-> ts, count |-> count]

\* p['name'].encode('utf-8') raises on a playlist whose name is None
RenderRaises(sc, sts) ==
    /\ sc = "generate"
    /\ \E k \in 1..Len(sts) : \E j \in 1..Len(sts[k].entries) :
         sts[k].entries[j].name = <<>>

Scripts == {"generate", "update"}

RenderInit ==
    /\ script \in Scripts
    /\ rpc = "parsing"
    /\ lines \in Inputs
    /\ pos = 1
    /\ stations = <<>>
    /\ total_playlist_count = 0
    /\ outcome = <<>>
    /\ documents = <<>>
    /\ dump_written = <<>>
    /\ rexit = -1

\* one iteration of the for-line loop
ParseLine ==
    /\ rpc = "parsing"
    /\ pos <= Len(lines)
    /\ LET r == ParseOne(script, lines[pos], pos)
       IN /\ outcome' = Append(outcome, r.outcome)
          /\ IF r.outcome = "abort"
             THEN /\ rpc' = "crashed"
                  /\ rexit' = 1
                  /\ UNCHANGED <<pos, stations, total_playlist_count>>
             ELSE /\ pos' = pos + 1
                  /\ UNCHANGED <<rpc, rexit>>
                  /\ IF r.outcome = "entry"
                     THEN /\ stations' = AppendEntry(stations, r.station, r.entry[1])
                          /\ total_playlist_count' = total_playlist_count + 1
                     ELSE UNCHANGED <<stations, total_playlist_count>>
    /\ UNCHANGED <<script, lines, documents, dump_written>>

\* after the loop: if not stations: sys.exit(1)
EndOfInput ==
    /\ rpc = "parsing"
    /\ pos > Len(lines)
    /\ IF NoStations
       THEN rpc' = "empty_error" /\ rexit' = 1
       ELSE rpc' = "aggregated" /\ rexit' = rexit
    /\ UNCHANGED <<script, lines, pos, stations, total_playlist_count, outcome,
                   documents, dump_written>>

\* the rest of main: build the page and write the files
RenderStep(from, to) ==
    /\ rpc = from
    /\ IF RenderRaises(script, stations)
       THEN /\ rpc' = "crashed"
            /\ rexit' = 1
            /\ stations' = SortedInPlace(stations)
            /\ UNCHANGED <<documents, dump_written>>
       ELSE \E ts \in Timestamps :
            \E draws \in [1..TotalSeps(RenderOrder(script, stations, SortedKeys(stations)))
                            -> {symbols[k] : k \in 1..Len(symbols)}] :
              /\ documents' = Append(documents,
                                Document(script, stations, draws, ts, total_playlist_count))
              /\ dump_written' =
                   IF script = "update"
                   THEN <<[stations |-> stations, timestamp |-> ts,
                           total_playlist_count |-> total_playlist_count]>>
                   ELSE dump_written
              /\ stations' = IF script = "generate" THEN SortedInPlace(stations) ELSE stations
              /\ rpc' = to
              /\ rexit' = 0
    /\ UNCHANGED <<script, lines, pos, total_playlist_count, outcome>>

Render == RenderStep("aggregated", "rendered")

\* the same aggregated input rendered a second time
RenderAgain == RenderStep("rendered", "rendered_twice")

(***************************************************************************)
(* Page generation: properties                                             *)
(***************************************************************************)
Required == {"station", "name", "url"}

\* line i went through the try block without a "Failed to parse line" warning
\* and without an uncaught exception
ParsedOK(i) == i <= Len(outcome) /\ outcome[i] \in {"entry", "skipped_silent"}
NonEmptyStation(line) == Has(line, "station") /\ line.station # <<>>

\* a successfully parsed line with a non-empty station
ValidRecord(i) == ParsedOK(i) /\ NonEmptyStation(lines[i])

\* the lines each script turns into an entry of a station group
AddsEntry(sc, line) ==
    /\ line.kind = "object"
    /\ IF sc = "generate"
       THEN NonEmptyStation(line) /\ Has(line, "track_count") /\ line.track_count # 0
       ELSE (Required \cup {"track_count"}) \subseteq line.keys

Aggregated == rpc \in {"aggregated", "rendered", "rendered_twice"}
EndReached == pos > Len(lines) /\ rpc # "parsing"

RECURSIVE EntryCount(_)
EntryCount(sts) ==
    IF sts = <<>> THEN 0 ELSE Len(Head(sts).entries) + EntryCount(Tail(sts))

CountShown(n) ==
    /\ \A d \in 1..Len(documents) : documents[d].count = n
    /\ \A d \in 1..Len(dump_written) : dump_written[d].total_playlist_count = n

\* C6 as stated: for a stream with at least one valid record, the count
\* produced by aggregation, shown in the document and written to the dump, is
\* the number of input lines that parsed successfully and have a non-empty
\* station.
C6_CountsParsedLines ==
    LET valid == { i \in 1..Len(lines) : ValidRecord(i) }
    IN (EndReached /\ valid # {}) =>
          (total_playlist_count = Cardinality(valid) /\ CountShown(Cardinality(valid)))

\* C6 as amended: the count is the number of lines that were added to a station
\* group: in generate_static_html.py the objects with a non-empty station and a
\* non-zero track_count, in update_website.py the objects holding the keys
\* station, name, url and track_count (an empty station included); the same
\* number is shown in every document and written to the dump.
C6_CountsEntries ==
    LET n == Cardinality({ i \in 1..(pos - 1) : AddsEntry(script, lines[i]) })
    IN /\ total_playlist_count = n
       /\ EntryCount(stations) = n
       /\ CountShown(n)

C6_Witness ==
    /\ script = "generate"
    /\ rpc = "rendered"
    /\ total_playlist_count = 1
    /\ documents[1].count = 1
    /\ \E i, j \in 1..Len(lines) :
         /\ ValidRecord(i) /\ lines[i].track_count = 0
         /\ lines[j].kind = "object" /\ ~NonEmptyStation(lines[j])

\* C7: in every rendered output the playlists of one station appear by
\* last_updated descending, equal timestamps in their input order.
C7_NewestFirst ==
    \A d \in 1..Len(documents) :
        LET b == documents[d].body
        IN \A i, j \in 1..Len(b) :
             (i < j /\ b[i].station = b[j].station) =>
                 /\ ~StrLess(b[i].last_up, b[j].last_up)
                 /\ b[i].last_up = b[j].last_up => b[i].src < b[j].src

SameInputTwice == rpc = "rendered_twice" /\ documents[1].ts = documents[2].ts

\* C8 as stated: two renders of the same aggregated input with the same
\* generation timestamp are identical, separators and accent colours included.
C8_RendersIdentical == SameInputTwice => documents[1] = documents[2]

\* a document with every separator between artist names blanked
WithoutSeparators(doc) ==
    [doc EXCEPT !.body =
        [k \in 1..Len(doc.body) |->
            [doc.body[k] EXCEPT !.text =
                [m \in 1..Len(doc.body[k].text) |->
                    IF m % 2 = 0 THEN "sep" ELSE doc.body[k].text[m]]]]]

\* C8 as amended: two renders of the same aggregated input with the same
\* generation timestamp are identical except for the separators between artist
\* names, drawn afresh at every render; stations, playlists, artist names,
\* images and the accent colour of every playlist are the same, and
\* update_website.py, which draws nothing, writes identical output.
C8_RendersEqualButSeparators ==
    SameInputTwice =>
        /\ WithoutSeparators(documents[1]) = WithoutSeparators(documents[2])
        /\ script = "update" => documents[1] = documents[2]

C8_Witness ==
    /\ SameInputTwice
    /\ script = "generate"
    /\ documents[1] # documents[2]
    /\ Len(documents[1].body) >= 2

BadLine(line) ==
    \/ line.kind = "garbage"
    \/ line.kind = "object" /\ ~(Required \subseteq line.keys)

\* C9: a line that fails to decode or lacks station, name or url is skipped
\* with a diagnostic: it does not abort the run and is in no station group.
C9_BadLinesSkipped ==
    /\ \A i \in 1..Len(outcome) : BadLine(lines[i]) => outcome[i] = "skipped_diag"
    /\ \A k \in 1..Len(stations) : \A j \in 1..Len(stations[k].entries) :
         ~BadLine(lines[stations[k].entries[j].src])
    /\ (rpc = "crashed" /\ pos <= Len(lines)) => ~BadLine(lines[pos])

NothingWritten == documents = <<>> /\ dump_written = <<>>

\* C10 as stated: the run fails with the empty-input error exactly when the
\* stream holds no valid record (a line parsed successfully, with a non-empty
\* station), and then nothing has been written.
C10_FailsIffNoValidRecord ==
    /\ EndReached =>
         (rpc = "empty_error" <=> \A i \in 1..Len(lines) : ~ValidRecord(i))
    /\ rpc = "empty_error" => (rexit = 1 /\ NothingWritten)

\* C10 as amended: the run fails with the empty-input error exactly when, at
\* the end of the stream, no line has been added to a station group (see C6
\* for the lines each script adds), and then it exits with status 1 and
\* nothing has been written.
C10_FailsIffNoEntry ==
    /\ EndReached =>
         (rpc = "empty_error" <=> \A i \in 1..Len(lines) : ~AddsEntry(script, lines[i]))
    /\ rpc = "empty_error" => (EndReached /\ rexit = 1 /\ NothingWritten)

C10_Witness ==
    /\ rpc = "empty_error"
    /\ script = "generate"
    /\ Len(lines) = 3
    /\ \E i \in 1..Len(lines) : ValidRecord(i) /\ lines[i].track_count = 0

StationKeys == { stations[k].station : k \in 1..Len(stations) }

\* C11: in every rendered output the stations appear in lexicographic order of
\* their names, in the table of contents and in the body, and they are the
\* stations of the input whatever the order their records arrived in.
C11_StationsSorted ==
    \A d \in 1..Len(documents) :
        LET toc == documents[d].toc
            b == documents[d].body
        IN /\ \A i, j \in 1..Len(toc) : i < j => StrLess(toc[i], toc[j])
           /\ \A i, j \in 1..Len(b) : i < j => ~StrLess(b[j].station, b[i].station)
           /\ { b[i].station : i \in 1..Len(b) } = StationKeys
           /\ script = "generate" => { toc[i] : i \in 1..Len(toc) } = StationKeys

\* the records of WFMU arrived before those of KALX
C11_Witness ==
    /\ script = "generate"
    /\ rpc = "rendered"
    /\ Len(stations) = 2
    /\ stations[1].station = WFMU /\ stations[2].station = KALX
    /\ documents[1].toc = <<KALX, WFMU>>
    /\ documents[1].body[1].station = KALX

\* the artist names of a card, without the separators
ArtistsShown(card) ==
    [k \in 1..((Len(card.text) + 1) \div 2) |-> card.text[2 * k - 1]]

\* where artist a occurs in the first 12 tracks of a preview: <<track, place>>
Occurrences(tracks, a) ==
    { <<t, k>> \in (1..Len(tracks)) \X (1..2) :
        t <= 12 /\ k <= Len(tracks[t].artists) /\ tracks[t].artists[k] = a }

Before(x, y) == x[1] < y[1] \/ (x[1] = y[1] /\ x[2] < y[2])

\* C12: the artist list rendered for a playlist holds each artist once, holds
\* exactly the artists of the first 12 preview tracks (none that appears from
\* track 13 on only), in the order of their first occurrence in those tracks.
C12_ArtistList ==
    script = "generate" =>
        \A d \in 1..Len(documents) : \A c \in 1..Len(documents[d].body) :
            LET card == documents[d].body[c]
                shown == ArtistsShown(card)
                line == lines[card.src]
                tracks == IF Has(line, "preview") THEN line.preview ELSE <<>>
            IN /\ \A i, j \in 1..Len(shown) : i < j => shown[i] # shown[j]
               /\ \A a \in {"Ann", "Bo", "Cy"} :
                     (\E i \in 1..Len(shown) : shown[i] = a) <=> Occurrences(tracks, a) # {}
               /\ \A i, j \in 1..Len(shown) : i < j =>
                     \E x \in Occurrences(tracks, shown[i]) :
                        \A y \in Occurrences(tracks, shown[j]) : Before(x, y)

\* a playlist of 13 tracks, the 13th by an artist not heard before
C12_Witness ==
    /\ script = "generate"
    /\ rpc = "rendered"
    /\ \E c \in 1..Len(documents[1].body) :
         /\ Len(lines[documents[1].body[c].src].preview) = 13
         /\ ArtistsShown(documents[1].body[c]) = <<"Bo", "Ann">>

(***************************************************************************)
(* Cleanup: membership, order of the states, faults                        *)
(***************************************************************************)
Markers == {"Generated from Spinitron", "Spinitron ID:", "Latest ID:"}

\* name has the prefix, or description contains one of the markers M
MemberBy(M, p) ==
    StartsWith(p.name, KalxPrefix) \/ \E m \in M : Contains(p.description, m)

HasClassified == pc \in {"AWAITING_CONFIRMATION", "NOTHING_TO_DO", "DELETING", "DONE"}

\* the listed playlist a remove call was issued for
Called(i) == CHOOSE k \in 1..Len(playlists) : playlists[k].id = calls[i].id

\* the candidates are the listed playlists that satisfy Member, and only a
\* playlist that satisfies it receives a remove call
SelectsBy(Member(_)) ==
    /\ HasClassified => kalx_playlists = SelectSeq(playlists, Member)
    /\ \A i \in 1..Len(calls) :
         /\ \E k \in 1..Len(playlists) : playlists[k].id = calls[i].id
         /\ Member(playlists[Called(i)])

\* C13 as stated: one predicate of three disjuncts (the prefix and two
\* markers), the same in both modes, selects the candidates, and a listed
\* playlist that fails it receives no remove call.
C13_OnePredicateTwoMarkers ==
    \E M \in SUBSET Markers :
        /\ Cardinality(M) = 2
        /\ SelectsBy(LAMBDA p : MemberBy(M, p))

\* C13 as amended: delete-all mode selects a playlist whose name has the prefix
\* or whose description contains one of three markers; duplicate mode selects
\* on the prefix alone; in either mode a listed playlist that fails the mode's
\* predicate is no candidate and receives no remove call.
C13_MembershipPerMode ==
    /\ SelectsBy(LAMBDA p : MemberBy(IF mode = "all" THEN Markers ELSE {}, p))
    /\ Ids(to_delete) \subseteq Ids(kalx_playlists)

\* delete-all mode removed a playlist known by its marker only and left the
\* one whose description holds no marker
C13_Witness ==
    /\ mode = "all"
    /\ pc = "DONE"
    /\ Len(playlists) = 3
    /\ \E k \in 1..3 : playlists[k].description = <<"Show">>
                       /\ playlists[k].id \notin Ids(to_delete)
    /\ \E i \in 1..Len(calls) :
         /\ calls[i].status = 200
         /\ playlists[Called(i)].description = <<"Show", "Latest ID:">>

\* the states of the documented order, numbered
Rank(st) ==
    CASE st = "IDLE" -> 0
      [] st = "LISTING" -> 1
      [] st = "CLASSIFYING" -> 2
      [] st = "AWAITING_CONFIRMATION" -> 3
      [] st = "DELETING" -> 4
      [] st = "DONE" -> 5
      [] OTHER -> 6

AllCallIds == { calls[i].id : i \in 1..Len(calls) }

\* the listing went through to its last page without a refusal
ListingComplete ==
    /\ ~list_failed
    /\ url = Len(playlists)
    /\ Ids(playlists) = Ids(remote) \cup AllCallIds

\* C14 as stated, its middle part: a run whose listing succeeded and that has
\* classified it is at the prompt or past it, also with an empty delete-set.
C14_AlwaysPrompts ==
    (HasClassified /\ ~list_failed) =>
        pc \in {"AWAITING_CONFIRMATION", "DELETING", "DONE"}

\* one step of a run, from pc to pc'
C14_Step ==
    /\ runs' # runs => (pc \in Terminal /\ pc' = "IDLE")
    /\ runs' = runs =>
         /\ pc \in Terminal => pc' = pc
         /\ pc \in Running =>
              \/ Rank(pc') = Rank(pc) + 1
              \/ pc' = pc /\ pc \in {"LISTING", "DELETING"}
              \/ pc' = "FAILED" /\ (pc \in {"IDLE", "LISTING", "DELETING"} \/ mode = "all")
              \/ pc' = "CANCELLED" /\ (pc = "AWAITING_CONFIRMATION" \/ mode = "dup")
              \/ pc' = "NOTHING_TO_DO" /\ pc = "CLASSIFYING"
         /\ pc = "CLASSIFYING" =>
              /\ pc' = "NOTHING_TO_DO" => to_delete' = <<>>
              /\ pc' = "AWAITING_CONFIRMATION" => to_delete' # <<>>
         /\ pc' = "DONE" => Len(calls') = Len(to_delete)
         /\ calls' # calls => (pc = "DELETING" /\ ListingComplete)

\* C14 as amended: a run goes through IDLE, LISTING, CLASSIFYING,
\* AWAITING_CONFIRMATION, then CANCELLED or DELETING, then DONE, in this order
\* and never back, but it may end before DONE: in a failure (token request
\* refused, page request refused in duplicate mode, a request that raises, an
\* interrupt of delete-all mode), as cancelled (an interrupt of duplicate
\* mode), or, when the delete-set is empty (as it is in delete-all mode after a
\* refused page request), straight after CLASSIFYING without showing the
\* prompt; the prompt is shown exactly when the delete-set is not empty; a
\* remove call is issued only in DELETING, after the listing fetched its last
\* page.
C14_OrderWithEarlyExits == [][C14_Step]_vars

\* a listing of two playlists that went through, nothing to delete, no prompt
C14_Witness ==
    /\ pc = "NOTHING_TO_DO"
    /\ ~list_failed
    /\ Len(playlists) = 2
    /\ confirmation = <<>>
    /\ exit_code = 0

\* the operator's answer opened the gate in this run
EnteredDeleting == ConfirmAccepted(mode, confirmation)

\* C15: a run that has entered DELETING is deleting or done, never failed or
\* cancelled, and when done it has issued a remove call for every item of the
\* delete-set.
C15_BatchRunsToCompletion ==
    EnteredDeleting =>
        /\ pc \in {"DELETING", "DONE"}
        /\ pc = "DONE" => Len(calls) = Len(to_delete)

(***************************************************************************)
(* Duplicate cleaning, run after run                                       *)
(***************************************************************************)
\* the duplicate cleaner is started again; the snapshot ids may have changed
DupRestart == Restart({"dup"}, Drift(remote))

\* the copies of name n on the account r
Copies(r, n) == { i \in 1..Len(r) : r[i].name = n }

\* one step of the duplicate cleaner or of the service
C16_Step ==
    /\ \A i \in 1..Len(remote) :
         IsKalxDup(remote[i]) => Copies(remote', remote[i].name) # {}
    /\ HasClassified' =>
         \A k \in 1..Len(kalx_playlists') :
            Cardinality({ j \in Copies(kalx_playlists', kalx_playlists'[k].name) :
                            kalx_playlists'[j].id \notin Ids(to_delete') }) = 1
    /\ (runs' = runs /\ calls' # calls) =>
         \E j \in 1..Len(remote') :
            /\ remote'[j].name = to_delete[idx].name
            /\ remote'[j].id \notin Ids(to_delete)

\* C16: whatever the confirmations, the outcomes of the remove calls and the
\* changes of the snapshot ids between runs, no step of the duplicate cleaner
\* takes the last copy of a matching name from the account: of each name one
\* playlist is outside the delete-set of a run and is still on the account
\* after every remove call of the run.
C16_NeverLastCopy == [][C16_Step]_vars

\* a second run, after the snapshot ids changed, removed the playlist that the
\* first run had kept
C16_Witness ==
    /\ prev.valid
    /\ pc = "DONE"
    /\ \E i \in 1..Len(calls) :
         /\ calls[i].status = 200
         /\ calls[i].id \in prev.kept
         /\ Copies(remote, playlists[Called(i)].name) # {}

CleanupIdle ==
    /\ mode = "all"
    /\ pc = "IDLE"
    /\ remote = <<>>
    /\ url = 0
    /\ playlists = <<>>
    /\ list_failed = FALSE
    /\ kalx_playlists = <<>>
    /\ to_delete = <<>>
    /\ confirmation = <<>>
    /\ idx = 1
    /\ deleted_count = 0
    /\ failed_count = 0
    /\ calls = <<>>
    /\ report = NoReport
    /\ exit_code = -1
    /\ runs = 1
    /\ prev = NoPrev

RenderIdle ==
    /\ script = "generate"
    /\ rpc = "idle"
    /\ lines = <<>>
    /\ pos = 1
    /\ stations = <<>>
    /\ total_playlist_count = 0
    /\ outcome = <<>>
    /\ documents = <<>>
    /\ dump_written = <<>>
    /\ rexit = -1

Init == CleanupInit /\ RenderIdle

Next ==
    \/ GetAccessToken /\ UNCHANGED renderVars
    \/ FetchPage /\ UNCHANGED renderVars
    \/ Classify /\ UNCHANGED renderVars
    \/ Confirm /\ UNCHANGED renderVars
    \/ DeleteNext /\ UNCHANGED renderVars
    \/ NextRun /\ UNCHANGED renderVars

Spec == Init /\ [][Next]_vars

FaultInit == CleanupStart(Modes, MarkerListings) /\ RenderIdle

FaultNext ==
    \/ Next
    \/ RequestRaises /\ UNCHANGED renderVars
    \/ Interrupt /\ UNCHANGED renderVars

FaultSpec == FaultInit /\ [][FaultNext]_vars

DupInit == CleanupStart({"dup"}, DupListings) /\ RenderIdle

DupNext ==
    \/ GetAccessToken /\ UNCHANGED renderVars
    \/ FetchPage /\ UNCHANGED renderVars
    \/ Classify /\ UNCHANGED renderVars
    \/ Confirm /\ UNCHANGED renderVars
    \/ DeleteNext /\ UNCHANGED renderVars
    \/ RequestRaises /\ UNCHANGED renderVars
    \/ Interrupt /\ UNCHANGED renderVars
    \/ DupRestart /\ UNCHANGED renderVars

DupSpec == DupInit /\ [][DupNext]_vars

RenderSpecInit == RenderInit /\ CleanupIdle

RenderNext ==
    \/ ParseLine /\ UNCHANGED cleanupVars
    \/ EndOfInput /\ UNCHANGED cleanupVars
    \/ Render /\ UNCHANGED cleanupVars
    \/ RenderAgain /\ UNCHANGED cleanupVars

RenderSpec == RenderSpecInit /\ [][RenderNext]_vars

====
